---- MODULE Spec2Model ----
(***************************************************************************)
(* Job lifecycle of youtube_webapp.py: the in-memory registry `downloads`, *)
(* the runner thread download_videos with its progress_hook, and the Flask *)
(* handlers start_download, progress and download_zip.                     *)
(*                                                                         *)
(* Threads interleave at the granularity of the statements that touch      *)
(* shared state.  A block that is entirely inside `with downloads_lock`    *)
(* and contains no call that can block is one step, except the runner's    *)
(* final update (lines 76-81), which is kept statement by statement        *)
(* because download_zip reads the record outside the lock.                 *)
(***************************************************************************)
EXTENDS Integers, Sequences, FiniteSets, TLC

\* ---------------------------------------------------------------- bounds
MaxJobs == 2          \* number of POST /download requests that create a job
MaxUrls == 2          \* URLs handed to runners, over all jobs
MaxFinished == 2      \* 'finished' events delivered to the hook of one job
MaxTotal == 10        \* URLs of the job whose counters are followed on their own

\* ------------------------------------------------------------ input sets
\* str(uuid.uuid4())[:8] is one of 16^8 strings, and nothing looks inside it.
\* The model names identifiers in order of first appearance: a draw either
\* repeats an identifier already drawn (the first 8 hex digits collide) or is
\* the next unused name of IdPool.
IdPool == <<"id1", "id2", "id3", "id4">>

Ids == {IdPool[k] : k \in 1..Len(IdPool)}

\* A URL is a sequence of tokens; `in` is substring containment on tokens.
UrlPool == <<(<<"youtube.com", "v1">>), (<<"vimeo.com", "v2">>), (<<"youtu.be", "v3">>)>>

Urls == {UrlPool[k] : k \in 1..Len(UrlPool)}

RECURSIVE SubSeqs(_)
SubSeqs(s) ==
    IF s = <<>> THEN {<<>>}
    ELSE LET rest == SubSeqs(Tail(s))
         IN  rest \cup {<<Head(s)>> \o t : t \in rest}

\* the URL lists a request can carry: the pool's subsequences of bounded length
UrlLists == {s \in SubSeqs(UrlPool) : Len(s) <= MaxUrls}

\* ------------------------------------------------------- pure functions
Contains(url, marker) == \E k \in 1..Len(url) : url[k] = marker

is_valid_youtube_url(url) == Contains(url, "youtube.com") \/ Contains(url, "youtu.be")

\* the filter of line 187 used only as a test: every URL of the request is
\* kept as soon as one of them is valid
SelectAllIfAny(urls) ==
    IF \E k \in 1..Len(urls) : is_valid_youtube_url(urls[k]) THEN urls ELSE <<>>

RECURSIVE SelectValid(_)
SelectValid(urls) ==
    IF urls = <<>> THEN <<>>
    ELSE IF is_valid_youtube_url(Head(urls))
         THEN <<Head(urls)>> \o SelectValid(Tail(urls))
         ELSE SelectValid(Tail(urls))

\* Pairs <<completed, total>> (total <= 12, completed < 40) for which the
\* IEEE-754 double (completed / total) * 90 lies just below the exact integer
\* completed * 90 / total, so that int() truncates to one less.
FloatShort ==
    {<<7, 5>>, <<14, 5>>, <<23, 5>>, <<28, 5>>, <<23, 9>>, <<37, 9>>,
     <<7, 10>>, <<14, 10>>, <<23, 10>>, <<28, 10>>}

\* int((completed / total) * 90)
IntProgress(completed, total) ==
    IF <<completed, total>> \in FloatShort
    THEN (completed * 90) \div total - 1
    ELSE (completed * 90) \div total

\* d.get('filename','')[:50]
Trunc50(f) == SubSeq(f, 1, IF Len(f) < 50 THEN Len(f) ELSE 50)

\* the file name yt-dlp reports while it downloads `url`
FileOf(url) == url

Msg(kind, file, x, y) == [kind |-> kind, file |-> file, x |-> x, y |-> y]

\* {'status':'starting','progress':0,'current':'Initializing','errors':[]}
\* zip_path = <<>> stands for a dict without the key 'zip_path'.
NewRecord ==
    [status |-> "starting", progress |-> 0,
     current |-> Msg("Initializing", <<>>, 0, 0),
     errors |-> <<>>, zip_path |-> <<>>]

\* download_dir.parent / f"youtube_{download_id}.zip"
ZipPathOf(id) == <<id>>

\* ----------------------------------------------------------------- state
VARIABLES
    downloads,   \* the dict `downloads`: id -> index into heap (0: key absent)
    heap,        \* the dict objects created at line 191, in creation order
    lock,        \* downloads_lock: 0 free, r > 0 held by runner r
    runners,     \* one entry per thread started at line 192
    dirs,        \* ids whose directory ~/Downloads/YouTube_<id> exists
    zipfile,     \* id -> state of ~/Downloads/youtube_<id>.zip
    zreq,        \* the download_zip request in flight
    resp,        \* the HTTP response produced by the last step, if any
    arch,        \* one run of the archive loop of lines 70-74, on its own
    calc         \* one job's counters completed/total and its progress, on their own

vars == <<downloads, heap, lock, runners, dirs, zipfile, zreq, resp, arch, calc>>

Resp(ep, code, id, body) == [ep |-> ep, code |-> code, id |-> id, body |-> body]
NoResp == Resp("none", 0, "", <<>>)
IdleZip == [pc |-> "idle", id |-> "", info |-> 0, zip_path |-> <<>>]
NoArch == [pc |-> "none", dir |-> {}, todo |-> {}, entries |-> <<>>]
NoCalc == [total |-> 0, completed |-> 0, progress |-> 0]

Init ==
    /\ downloads = [id \in Ids |-> 0]
    /\ heap = <<>>
    /\ lock = 0
    /\ runners = <<>>
    /\ dirs = {}
    /\ zipfile = [id \in Ids |-> "absent"]
    /\ zreq = IdleZip
    /\ resp = NoResp
    /\ arch = NoArch
    /\ calc = NoCalc

Rec(id) == heap[downloads[id]]
InRegistry(id) == downloads[id] # 0

\* downloads[download_id][field] = value
SetField(id, field, value) ==
    [heap EXCEPT ![downloads[id]] = [@ EXCEPT ![field] = value]]

\* identifiers drawn so far, and the identifiers a request can name: those
\* and one that was never drawn
NumDrawn == Cardinality({id \in Ids : InRegistry(id)})
DrawIds == {IdPool[k] : k \in 1..(IF NumDrawn < Len(IdPool) THEN NumDrawn + 1 ELSE NumDrawn)}

RECURSIVE SumLen(_)
SumLen(rs) == IF rs = <<>> THEN 0 ELSE Len(Head(rs).urls) + SumLen(Tail(rs))

\* ------------------------------------------------------- start_download
start_download(urls, newid) ==
    LET valid_urls == SelectValid(urls) IN
    /\ Len(runners) < MaxJobs
    /\ SumLen(runners) + Len(valid_urls) <= MaxUrls
    /\ IF valid_urls = <<>>
       THEN /\ resp' = Resp("download", 200, "", <<"No valid URLs">>)
            /\ UNCHANGED <<downloads, heap, runners>>
       ELSE /\ lock = 0
            /\ heap' = Append(heap, NewRecord)
            /\ downloads' = [downloads EXCEPT ![newid] = Len(heap) + 1]
            /\ runners' = Append(runners,
                   [id |-> newid, urls |-> valid_urls, pc |-> "mkdir", i |-> 1,
                    completed |-> 0, errors |-> <<>>,
                    fin |-> 0, raised |-> 0, attempts |-> 0, regular |-> TRUE])
            /\ resp' = Resp("download", 200, newid, <<"success">>)
    /\ UNCHANGED <<lock, dirs, zipfile, zreq, arch, calc>>

\* ------------------------------------------------------ download_videos
Runner(r) == runners[r]
Total(r) == Len(runners[r].urls)

SetRunner(r, rec) == [runners EXCEPT ![r] = rec]

\* str(e) of the exception raised while fetching `url`
ErrOf(url) == url

\* an uncaught exception ends the thread; its locals are gone
Crashed(run) ==
    [run EXCEPT !.pc = "crashed", !.i = 0, !.completed = 0, !.errors = <<>>,
                !.fin = 0, !.raised = 0, !.attempts = 0, !.regular = TRUE]

\* line 34: download_dir.mkdir(parents=True, exist_ok=True)
Mkdir(r) ==
    /\ Runner(r).pc = "mkdir"
    /\ dirs' = dirs \cup {Runner(r).id}
    /\ runners' = SetRunner(r, [Runner(r) EXCEPT !.pc = "fetching"])
    /\ UNCHANGED <<downloads, heap, lock, zipfile, zreq, arch, calc>>
    /\ resp' = NoResp

\* lines 30-34 raise (OSError from mkdir): nothing catches it, the thread ends
MkdirFails(r) ==
    /\ Runner(r).pc = "mkdir"
    /\ runners' = SetRunner(r, Crashed(Runner(r)))
    /\ UNCHANGED <<downloads, heap, lock, dirs, zipfile, zreq, arch, calc>>
    /\ resp' = NoResp

\* progress_hook(d) with d['status'] == 'downloading'
HookDownloading(r) ==
    LET id == Runner(r).id
        file == Trunc50(FileOf(Runner(r).urls[Runner(r).i]))
        rec == [Rec(id) EXCEPT !.progress = IntProgress(Runner(r).completed, Total(r)),
                               !.current = Msg("Downloading", file, 0, 0)]
    IN  /\ Runner(r).pc = "fetching"
        /\ lock = 0
        /\ heap' = [heap EXCEPT ![downloads[id]] = rec]
        /\ UNCHANGED <<downloads, lock, runners, dirs, zipfile, zreq, arch, calc>>
        /\ resp' = NoResp

\* progress_hook(d) with d['status'] == 'finished'
HookFinished(r) ==
    LET id == Runner(r).id
        file == Trunc50(FileOf(Runner(r).urls[Runner(r).i]))
    IN  /\ Runner(r).pc = "fetching"
        /\ Runner(r).completed < MaxFinished
        /\ lock = 0
        /\ runners' = SetRunner(r, [Runner(r) EXCEPT !.completed = @ + 1, !.fin = @ + 1])
        /\ heap' = SetField(id, "current", Msg("Finished", file, 0, 0))
        /\ UNCHANGED <<downloads, lock, dirs, zipfile, zreq, arch, calc>>
        /\ resp' = NoResp

\* NextUrl with the try around the loop instead of inside it: the first
\* exception ends the loop
NextUrlAbort(run, raised) ==
    [run EXCEPT !.i = @ + 1,
                !.fin = 0,
                !.errors = IF raised THEN Append(@, ErrOf(run.urls[run.i])) ELSE @,
                !.raised = IF raised THEN @ + 1 ELSE @,
                !.attempts = @ + 1,
                !.regular = @ /\ run.fin = (IF raised THEN 0 ELSE 1),
                !.pc = IF raised \/ run.i = Len(run.urls) THEN "zip" ELSE "fetching"]

\* NextUrl with a retry: a URL whose fetch raised is fetched again
NextUrlRetry(run, raised) ==
    IF raised
    THEN [run EXCEPT !.fin = 0,
                     !.errors = Append(@, ErrOf(run.urls[run.i])),
                     !.raised = @ + 1,
                     !.attempts = @ + 1,
                     !.regular = @ /\ run.fin = 0]
    ELSE [run EXCEPT !.i = @ + 1,
                     !.fin = 0,
                     !.attempts = @ + 1,
                     !.regular = @ /\ run.fin = 1,
                     !.pc = IF run.i = Len(run.urls) THEN "zip" ELSE "fetching"]

\* the loop of lines 63-67 moves to the next URL, or leaves for line 69.
\* fin, raised, attempts and regular record what the fetch capability did:
\* the 'finished' events of the current fetch, the fetches that raised, the
\* calls of ydl.download that have ended, and whether so far every fetch that returned reported exactly one 'finished'
\* event and every fetch that raised reported none.
NextUrl(run, raised) ==
    [run EXCEPT !.i = @ + 1,
                !.fin = 0,
                !.errors = IF raised THEN Append(@, ErrOf(run.urls[run.i])) ELSE @,
                !.raised = IF raised THEN @ + 1 ELSE @,
                !.attempts = @ + 1,
                !.regular = @ /\ run.fin = (IF raised THEN 0 ELSE 1),
                !.pc = IF run.i = Len(run.urls) THEN "zip" ELSE "fetching"]

\* line 65: ydl.download([url]) returns
FetchReturns(r) ==
    /\ Runner(r).pc = "fetching"
    /\ runners' = SetRunner(r, NextUrl(Runner(r), FALSE))
    /\ UNCHANGED <<downloads, heap, lock, dirs, zipfile, zreq, arch, calc>>
    /\ resp' = NoResp

\* lines 66-67: ydl.download([url]) raises, errors.append(str(e))
FetchRaises(r) ==
    /\ Runner(r).pc = "fetching"
    /\ runners' = SetRunner(r, NextUrl(Runner(r), TRUE))
    /\ UNCHANGED <<downloads, heap, lock, dirs, zipfile, zreq, arch, calc>>
    /\ resp' = NoResp

\* line 70: zipfile.ZipFile(zip_path, 'w') creates or truncates the file
ZipOpen(r) ==
    /\ Runner(r).pc = "zip"
    /\ zipfile' = [zipfile EXCEPT ![Runner(r).id] = "partial"]
    /\ runners' = SetRunner(r, [Runner(r) EXCEPT !.pc = "zipwrite"])
    /\ UNCHANGED <<downloads, heap, lock, dirs, zreq, arch, calc>>
    /\ resp' = NoResp

\* line 70 raises (OSError): the thread ends
ZipOpenFails(r) ==
    /\ Runner(r).pc = "zip"
    /\ runners' = SetRunner(r, Crashed(Runner(r)))
    /\ UNCHANGED <<downloads, heap, lock, dirs, zipfile, zreq, arch, calc>>
    /\ resp' = NoResp

\* lines 71-74 and the close at the end of the with block
ZipClose(r) ==
    /\ Runner(r).pc = "zipwrite"
    /\ zipfile' = [zipfile EXCEPT ![Runner(r).id] = "complete"]
    /\ runners' = SetRunner(r, [Runner(r) EXCEPT !.pc = "final77"])
    /\ UNCHANGED <<downloads, heap, lock, dirs, zreq, arch, calc>>
    /\ resp' = NoResp

\* lines 71-74 raise (OSError from listdir or write): the thread ends
ZipWriteFails(r) ==
    /\ Runner(r).pc = "zipwrite"
    /\ runners' = SetRunner(r, Crashed(Runner(r)))
    /\ UNCHANGED <<downloads, heap, lock, dirs, zipfile, zreq, arch, calc>>
    /\ resp' = NoResp

FinalStep(r, from, to, field, value, lockAfter) ==
    /\ Runner(r).pc = from
    /\ heap' = SetField(Runner(r).id, field, value)
    /\ runners' = SetRunner(r, [Runner(r) EXCEPT !.pc = to])
    /\ lock' = lockAfter
    /\ UNCHANGED <<downloads, dirs, zipfile, zreq, arch, calc>>
    /\ resp' = NoResp

\* lines 76-77: acquire downloads_lock, status = 'completed'
Final77(r) ==
    /\ lock = 0
    /\ FinalStep(r, "final77", "final78", "status", "completed", r)

\* line 78
Final78(r) == FinalStep(r, "final78", "final79", "progress", 100, r)

\* line 79
Final79(r) == FinalStep(r, "final79", "final80", "zip_path", ZipPathOf(Runner(r).id), r)

\* line 80
Final80(r) ==
    FinalStep(r, "final80", "final81", "current",
              Msg("Completed", <<>>, Runner(r).completed, Total(r)), r)

\* line 81 leaving the with block without releasing downloads_lock
Final81Held(r) == FinalStep(r, "final81", "done", "errors", Runner(r).errors, r)

\* line 81 and the release of downloads_lock
Final81(r) == FinalStep(r, "final81", "done", "errors", Runner(r).errors, 0)

\* ------------------------------------------------------------- progress
\* The handlers below are followed for one client, whose requests come one
\* after the other (the page polls /progress, then asks for the archive).
\* progress with downloads.setdefault instead of the membership test: an
\* unknown identifier gets a fresh record
progressCreates(id) ==
    /\ zreq.pc = "idle"
    /\ lock = 0
    /\ IF ~InRegistry(id)
       THEN /\ heap' = Append(heap, NewRecord)
            /\ downloads' = [downloads EXCEPT ![id] = Len(heap) + 1]
            /\ resp' = Resp("progress", 200, id, <<NewRecord>>)
       ELSE /\ resp' = Resp("progress", 200, id, <<Rec(id)>>)
            /\ UNCHANGED <<downloads, heap>>
    /\ UNCHANGED <<lock, runners, dirs, zipfile, zreq, arch, calc>>

\* lines 196-199, all under the lock; jsonify copies the record
progress(id) ==
    /\ zreq.pc = "idle"
    /\ lock = 0
    /\ resp' = IF ~InRegistry(id)
               THEN Resp("progress", 404, id, <<"Not found">>)
               ELSE Resp("progress", 200, id, <<Rec(id)>>)
    /\ UNCHANGED <<downloads, heap, lock, runners, dirs, zipfile, zreq, arch, calc>>

\* --------------------------------------------------------- download_zip
\* lines 203-205: under the lock, info = downloads[download_id] (a reference)
ZipLookup(id) ==
    /\ zreq.pc = "idle"
    /\ lock = 0
    /\ IF ~InRegistry(id)
       THEN /\ zreq' = IdleZip
            /\ resp' = Resp("download_zip", 404, id, <<"Not found">>)
       ELSE /\ zreq' = [IdleZip EXCEPT !.id = id, !.pc = "status", !.info = downloads[id]]
            /\ resp' = NoResp
    /\ UNCHANGED <<downloads, heap, lock, runners, dirs, zipfile, arch, calc>>

\* line 206, outside the lock: info['status']
ZipReadStatus ==
    LET st == heap[zreq.info].status IN
    /\ zreq.pc = "status"
    /\ IF st # "completed"
       THEN /\ zreq' = IdleZip
            /\ resp' = Resp("download_zip", 400, zreq.id, <<"Status", st>>)
       ELSE /\ zreq' = [zreq EXCEPT !.pc = "path"]
            /\ resp' = NoResp
    /\ UNCHANGED <<downloads, heap, lock, runners, dirs, zipfile, arch, calc>>

\* lines 207-208, outside the lock: info.get('zip_path'), os.path.exists
ZipReadPath ==
    LET zp == heap[zreq.info].zip_path IN
    /\ zreq.pc = "path"
    /\ IF zp = <<>> \/ zipfile[zp[1]] = "absent"
       THEN /\ zreq' = IdleZip
            /\ resp' = Resp("download_zip", 404, zreq.id, <<"Zip not found", zp>>)
       ELSE /\ zreq' = [zreq EXCEPT !.pc = "send", !.zip_path = zp]
            /\ resp' = NoResp
    /\ UNCHANGED <<downloads, heap, lock, runners, dirs, zipfile, arch, calc>>

\* line 209: send_file streams the file as it is now
ZipSend ==
    /\ zreq.pc = "send"
    /\ zreq' = IdleZip
    /\ resp' = Resp("download_zip", 200, zreq.id, <<"file", zipfile[zreq.zip_path[1]]>>)
    /\ UNCHANGED <<downloads, heap, lock, runners, dirs, zipfile, arch, calc>>

\* ------------------------------------------------ the archive loop alone
\* Lines 70-74 on a directory that nothing else writes while the loop runs.
\* A directory entry has a name and is a regular file or a subdirectory with
\* files of its own; a path is the sequence of its components.
DirEntry(name, kind, inner) == [name |-> name, kind |-> kind, inner |-> inner]

EntryPool ==
    {DirEntry("01 - a.mp4", "file", {}), DirEntry("01 - a.en.vtt", "file", {}),
     DirEntry("sub", "dir", {"c.mp4"}), DirEntry("empty", "dir", {})}

\* os.path.join(download_dir, f)
JoinPath(f) == <<"download_dir", f>>

\* os.path.exists(full), used only as a test in place of isfile
pathexists(dir, full) ==
    Len(full) = 2 /\ \E e \in dir : e.name = full[2]

\* os.path.isfile(full)
isfile(dir, full) ==
    Len(full) = 2 /\ \E e \in dir : e.name = full[2] /\ e.kind = "file"

\* the registry, the threads and the files as they are before any request
Quiet ==
    /\ downloads = [id \in Ids |-> 0]
    /\ heap = <<>>
    /\ lock = 0
    /\ runners = <<>>
    /\ dirs = {}
    /\ zipfile = [id \in Ids |-> "absent"]
    /\ zreq = IdleZip
    /\ resp = NoResp

ArchFrame == UNCHANGED <<downloads, heap, lock, runners, dirs, zipfile, zreq, resp, calc>>

\* line 70: the archive is opened empty
ArchOpen ==
    /\ arch.pc = "open"
    /\ arch' = [arch EXCEPT !.pc = "listdir", !.entries = <<>>]
    /\ ArchFrame

\* line 71: os.listdir(download_dir), names only, in no particular order
ArchListdir ==
    /\ arch.pc = "listdir"
    /\ arch' = [arch EXCEPT !.pc = "loop", !.todo = {e.name : e \in arch.dir}]
    /\ ArchFrame

\* lines 72-74 for one name f: zipf.write(full, f) when full is a file
ArchVisit(f) ==
    /\ arch.pc = "loop"
    /\ f \in arch.todo
    /\ arch' = [arch EXCEPT !.todo = @ \ {f},
                            !.entries = IF isfile(arch.dir, JoinPath(f))
                                        THEN Append(@, <<f>>) ELSE @]
    /\ ArchFrame

\* the end of the with block of line 70
ArchClose ==
    /\ arch.pc = "loop"
    /\ arch.todo = {}
    /\ arch' = [arch EXCEPT !.pc = "closed"]
    /\ ArchFrame

ArchInit ==
    /\ Quiet
    /\ calc = NoCalc
    /\ arch \in {[pc |-> "open", dir |-> d, todo |-> {}, entries |-> <<>>] : d \in SUBSET EntryPool}

ArchNext ==
    \/ ArchOpen
    \/ ArchListdir
    \/ \E f \in {e.name : e \in EntryPool} : ArchVisit(f)
    \/ ArchClose

ArchiveSpec == ArchInit /\ [][ArchNext]_vars

\* ------------------------------------------- the hook's counters alone
\* total, completed and the stored progress of one job of up to MaxTotal
\* URLs whose fetches report at most one 'finished' event each.
CalcFrame == UNCHANGED <<downloads, heap, lock, runners, dirs, zipfile, zreq, resp, arch>>

\* lines 56-57: completed += 1
CalcFinished ==
    /\ calc.total > 0
    /\ calc.completed < calc.total
    /\ calc' = [calc EXCEPT !.completed = @ + 1]
    /\ CalcFrame

\* lines 53-54: progress = int((completed / total) * 90)
CalcDownloading ==
    /\ calc.total > 0
    /\ calc' = [calc EXCEPT !.progress = IntProgress(calc.completed, calc.total)]
    /\ CalcFrame

CalcInit ==
    /\ Quiet
    /\ arch = NoArch
    /\ calc \in {[total |-> t, completed |-> 0, progress |-> 0] : t \in 1..MaxTotal}

CalcNext == CalcFinished \/ CalcDownloading

ProgressSpec == CalcInit /\ [][CalcNext]_vars

\* ------------------------------------------------------------------ Next
RunnerIds == 1..Len(runners)

Next ==
    \/ \E urls \in UrlLists, newid \in DrawIds : start_download(urls, newid)
    \/ \E r \in RunnerIds : Mkdir(r)
    \/ \E r \in RunnerIds : MkdirFails(r)
    \/ \E r \in RunnerIds : HookDownloading(r)
    \/ \E r \in RunnerIds : HookFinished(r)
    \/ \E r \in RunnerIds : FetchReturns(r)
    \/ \E r \in RunnerIds : FetchRaises(r)
    \/ \E r \in RunnerIds : ZipOpen(r)
    \/ \E r \in RunnerIds : ZipOpenFails(r)
    \/ \E r \in RunnerIds : ZipClose(r)
    \/ \E r \in RunnerIds : ZipWriteFails(r)
    \/ \E r \in RunnerIds : Final77(r)
    \/ \E r \in RunnerIds : Final78(r)
    \/ \E r \in RunnerIds : Final79(r)
    \/ \E r \in RunnerIds : Final80(r)
    \/ \E r \in RunnerIds : Final81(r)
    \/ \E id \in DrawIds : progress(id)
    \/ \E id \in DrawIds : ZipLookup(id)
    \/ ZipReadStatus
    \/ ZipReadPath
    \/ ZipSend

Spec == Init /\ [][Next]_vars

\* the statements inside the with block of lines 76-81 take no lock and make
\* no blocking call, so a thread inside the block keeps running
InLock(r) == r \in RunnerIds /\ (Final78(r) \/ Final79(r) \/ Final80(r) \/ Final81(r))

FairSpec == Spec /\ \A r \in 1..MaxJobs : WF_vars(InLock(r))

\* ================================================================ claims
Terminal == {"completed", "failed"}
Status(id) == Rec(id).status
Ended(r) == runners[r].pc \in {"done", "crashed"}

\* C1: when the runner hits an internal error (mkdir or the archive write
\* raises), the job's status becomes 'failed', an error is appended to its
\* errors and no archive location is recorded.
C1_InternalErrorMarksFailed ==
    \A r \in RunnerIds :
        runners[r].pc = "crashed" =>
            /\ Status(runners[r].id) = "failed"
            /\ Rec(runners[r].id).errors # <<>>
            /\ Rec(runners[r].id).zip_path = <<>>

\* C2: once a job's status is 'completed' or 'failed', its status, progress
\* and archive location never change again, whatever happens next.  Stated
\* for the records as they stand when no thread holds the lock, that is, once
\* the update that made the job terminal is over.
C2_TerminalFrozen ==
    [][\A id \in Ids :
          (lock = 0 /\ InRegistry(id) /\ Status(id) \in Terminal) =>
              /\ heap'[downloads'[id]].status = Rec(id).status
              /\ heap'[downloads'[id]].progress = Rec(id).progress
              /\ heap'[downloads'[id]].zip_path = Rec(id).zip_path]_vars

\* C3: every job creation returns an identifier different from the one of
\* every earlier creation, so no creation replaces an existing record.
C3_UniqueIds ==
    \A r1, r2 \in RunnerIds : r1 # r2 => runners[r1].id # runners[r2].id

\* C4: a job's progress in the registry never decreases from one state to
\* the next while its status is non-terminal.
C4_ProgressMonotone ==
    [][\A id \in Ids :
          (InRegistry(id) /\ Status(id) \notin Terminal
               /\ heap'[downloads'[id]].status \notin Terminal) =>
              heap'[downloads'[id]].progress >= Rec(id).progress]_vars

\* C5: every job's progress is an integer between 0 and 100 inclusive.
C5_ProgressInRange ==
    \A id \in Ids : InRegistry(id) => Rec(id).progress \in 0..100

\* C6: a job's archive location is set if and only if its status is
\* 'completed'.
C6_ArchiveIffCompleted ==
    \A id \in Ids : InRegistry(id) => (Rec(id).zip_path # <<>> <=> Status(id) = "completed")

\* C7: no handler observes a partially updated record; in particular the
\* archive endpoint, having read status 'completed', never reads a missing
\* archive location.
C7_NoTornRead ==
    (resp.ep = "download_zip" /\ resp.body[1] = "Zip not found") => resp.body[2] # <<>>

\* C8: the archive endpoint serves an archive only when it has been
\* completely written, never one that is still being written.
C8_ServesCompleteArchive ==
    (resp.ep = "download_zip" /\ resp.code = 200) => resp.body[2] = "complete"

\* C9: a job with N URLs in which k fetches raise (reporting no 'finished'
\* event) and each of the other N-k reports exactly one 'finished' event has
\* attempted every URL when its final update ends, and that update leaves
\* status 'completed', progress 100, k errors, the archive location and the
\* message 'Completed! (N-k)/N downloaded'.
C9_PartialFailure ==
    [][\A r \in RunnerIds :
          (runners[r].pc = "final81" /\ runners'[r].pc = "done" /\ runners[r].regular) =>
              LET N == Len(runners[r].urls)
                  k == runners[r].raised
                  rec == heap'[downloads'[runners[r].id]]
              IN  /\ runners[r].i = N + 1
                  /\ rec.status = "completed"
                  /\ rec.progress = 100
                  /\ Len(rec.errors) = k
                  /\ rec.zip_path = ZipPathOf(runners[r].id)
                  /\ rec.current = Msg("Completed", <<>>, N - k, N)]_vars

\* a job of two URLs, one fetch raised and one reported 'finished' once, has
\* ended with errors of length 1 and 'Completed! 1/2 downloaded'
C9_Witness ==
    \E r \in RunnerIds :
        /\ runners[r].pc = "done" /\ runners[r].regular
        /\ Len(runners[r].urls) = 2 /\ runners[r].raised = 1
        /\ Status(runners[r].id) = "completed"
        /\ Len(Rec(runners[r].id).errors) = 1
        /\ Rec(runners[r].id).current = Msg("Completed", <<>>, 1, 2)

\* C10: every created job eventually reaches a terminal status: once every
\* runner thread started for an identifier has ended, the job is 'completed'
\* or 'failed' (nothing else writes the status).
C10_EndedJobIsTerminal ==
    \A id \in Ids :
        (InRegistry(id) /\ \A r \in RunnerIds : runners[r].id = id => Ended(r)) =>
            Status(id) \in Terminal

\* the steps of runner q: hook events, the end of a fetch, the final update
RunnerActs(q) ==
    \/ HookDownloading(q) \/ HookFinished(q) \/ FetchReturns(q) \/ FetchRaises(q)
    \/ Final77(q) \/ Final78(q) \/ Final79(q) \/ Final80(q) \/ Final81(q)

Range(seq) == {seq[k] : k \in 1..Len(seq)}

\* C11: when two jobs with disjoint URL sets run concurrently, a job's
\* progress, message and errors change only because of its own runner's
\* events and failures, never because of a step of the other job's runner.
C11_Isolation ==
    [][\A r, q \in RunnerIds :
          (r # q /\ Range(runners[r].urls) \cap Range(runners[q].urls) = {} /\ RunnerActs(q)) =>
              /\ heap'[downloads'[runners[r].id]].progress = Rec(runners[r].id).progress
              /\ heap'[downloads'[runners[r].id]].current = Rec(runners[r].id).current
              /\ heap'[downloads'[runners[r].id]].errors = Rec(runners[r].id).errors]_vars

\* a URL that carries one of the two host markers
Marked(url) == \E k \in 1..Len(url) : url[k] \in {"youtube.com", "youtu.be"}

\* C12: a creation request whose list is empty or holds no URL with a host
\* marker answers with the validation error and adds no record and no runner;
\* otherwise the new runner receives exactly the marked URLs of the request,
\* in the request's order.
C12_Validation ==
    [][\A urls \in UrlLists, newid \in Ids :
          start_download(urls, newid) =>
              IF \A k \in 1..Len(urls) : ~Marked(urls[k])
              THEN /\ resp'.body = <<"No valid URLs">>
                   /\ UNCHANGED <<downloads, heap, runners>>
              ELSE LET got == runners'[Len(runners')].urls
                   IN  /\ Len(runners') = Len(runners) + 1
                       /\ Range(got) = {u \in Range(urls) : Marked(u)}
                       /\ Len(got) = Cardinality(Range(got))
                       /\ \A a, b \in 1..Len(got) :
                              a < b => \E x, y \in 1..Len(urls) :
                                          x < y /\ urls[x] = got[a] /\ urls[y] = got[b]]_vars

\* a request without a valid URL has just been refused while a job exists
C12_Witness ==
    /\ resp.ep = "download" /\ resp.body = <<"No valid URLs">>
    /\ Len(runners) = 1 /\ Len(heap) = 1

\* C13: a status poll or an archive request for an identifier that is not in
\* the registry answers 404 'Not found' and changes neither the set of keys
\* nor any record.
C13_UnknownIdNotFound ==
    [][(resp'.ep \in {"progress", "download_zip"} /\ ~InRegistry(resp'.id)) =>
          /\ resp'.code = 404
          /\ resp'.body = <<"Not found">>
          /\ UNCHANGED <<downloads, heap>>]_vars

\* an unknown identifier has just been refused while another job is registered
C13_Witness ==
    /\ resp.ep \in {"progress", "download_zip"} /\ resp.code = 404
    /\ resp.body = <<"Not found">>
    /\ ~InRegistry(resp.id)
    /\ \E id \in Ids : InRegistry(id)

\* C14: the archive holds exactly one entry for each regular file directly
\* inside the output directory, under the file's bare name, and no entry for
\* a subdirectory or for a file inside one.
C14_ArchiveContents ==
    arch.pc = "closed" =>
        /\ \A e \in arch.dir :
               e.kind = "file" =>
                   Cardinality({k \in 1..Len(arch.entries) : arch.entries[k] = <<e.name>>}) = 1
        /\ \A k \in 1..Len(arch.entries) :
               \E e \in arch.dir : e.kind = "file" /\ arch.entries[k] = <<e.name>>

\* an archive of a directory with two files and a non-empty subdirectory
C14_Witness ==
    /\ arch.pc = "closed"
    /\ Len(arch.entries) = 2
    /\ \E e \in arch.dir : e.kind = "dir" /\ e.inner # {}

\* C15: a status poll made while a job runs returns every fetch failure
\* that has occurred so far for that job, in the order of occurrence.
C15_PollShowsFailures ==
    (resp.ep = "progress" /\ resp.code = 200) =>
        \A r \in RunnerIds :
            (runners[r].id = resp.id /\ runners[r].pc # "crashed") =>
                /\ Len(resp.body[1].errors) >= Len(runners[r].errors)
                /\ SubSeq(resp.body[1].errors, 1, Len(runners[r].errors)) = runners[r].errors

\* C16: on every 'downloading' event the progress is set to
\* floor(completedCount * 90 / totalCount) for the number of 'finished' events
\* received so far, a 'finished' event leaves it unchanged, and it stays at
\* or below 90: the stored progress is that floor for the present count or
\* an earlier one.
C16_FloorFormula ==
    calc.total > 0 =>
        /\ calc.progress <= 90
        /\ \E c \in 0..calc.completed : calc.progress = (c * 90) \div calc.total

\* C17: within one job the URLs are fetched in input order, one at a time
\* and each exactly once: a call of ydl.download ends only while the runner
\* is in the loop, it is the call for urls[i] and moves the runner to
\* urls[i+1]; the archive is opened only after the call for the last URL has
\* ended, and the runner writes status 'completed' only after it has closed
\* the archive.
C17_SequentialFetch ==
    [][\A r \in RunnerIds :
          LET a == runners[r]
              b == runners'[r]
              N == Len(a.urls)
          IN  b.pc # "crashed" =>
                  /\ a.pc = "fetching" => (a.i \in 1..N /\ a.attempts = a.i - 1)
                  /\ b.attempts # a.attempts =>
                         (a.pc = "fetching" /\ b.attempts = a.attempts + 1 /\ b.i = a.i + 1)
                  /\ b.i # a.i => b.attempts = a.attempts + 1
                  /\ a.pc \in {"zip", "zipwrite", "final77"} => (a.i = N + 1 /\ a.attempts = N)
                  /\ (a.pc # "zipwrite" /\ b.pc = "zipwrite") =>
                         (a.pc = "zip" /\ zipfile'[a.id] = "partial")
                  /\ (a.pc # "final77" /\ b.pc = "final77") =>
                         (a.pc = "zipwrite" /\ zipfile'[a.id] = "complete")
                  /\ (a.pc # "final78" /\ b.pc = "final78") =>
                         (a.pc = "final77" /\ heap'[downloads'[a.id]].status = "completed")]_vars

\* a runner of two URLs has ended both calls and is writing the archive
C17_Witness ==
    \E r \in RunnerIds :
        /\ Len(runners[r].urls) = 2 /\ runners[r].pc = "zipwrite"
        /\ runners[r].attempts = 2 /\ runners[r].raised = 1

\* the steps of the status endpoint and of the archive endpoint
EndpointActs ==
    \/ \E id \in Ids : progress(id) \/ ZipLookup(id)
    \/ ZipReadStatus \/ ZipReadPath \/ ZipSend

\* C18: the status endpoint and the archive endpoint leave every job record
\* and the registry's keys unchanged, and a step of a runner changes no
\* record but the one created together with that runner.
C18_SingleWriter ==
    [][/\ EndpointActs => UNCHANGED <<downloads, heap>>
       /\ \A q \in RunnerIds :
              RunnerActs(q) =>
                  \A k \in 1..Len(heap) : k # q => heap'[k] = heap[k]]_vars

\* C19: the count of completed downloads of a live runner never exceeds the
\* number of its URLs, and the final summary 'Completed! X/Y downloaded' of
\* any record has X at most Y.
C19_CompletedAtMostTotal ==
    /\ \A r \in RunnerIds :
           runners[r].pc # "crashed" => runners[r].completed <= Total(r)
    /\ \A k \in 1..Len(heap) :
           heap[k].current.kind = "Completed" => heap[k].current.x <= heap[k].current.y

====
